---- MODULE Spec2Model ----
(***************************************************************************)
(* Network Diagnostics Toolkit (src/CLI.py): DNS lookup, ping, traceroute  *)
(* and a TCP connect scan of a fixed port list, run in sequence by main.   *)
(*                                                                         *)
(* A Python str is a sequence of one-character strings, so that strip,     *)
(* lower, splitlines, join and the "in" substring test are computed.       *)
(***************************************************************************)
EXTENDS Integers, Sequences, FiniteSets, TLC

VARIABLES
    entry,        \* the function under execution at top level
    pc,           \* position of the thread of control
    argv,         \* sys.argv
    platform,     \* platform.system()
    target,       \* main: target
    bound,        \* main: the probe results already bound to local names
    dns_ok, primary_ip, details,   \* main: result of dns_lookup
    resolver_ret, \* what socket.gethostbyname_ex did in dns_lookup
    ping_ok, ping_out,
    trace_ok, trace_out,
    ports_result, \* main: result of scan_ports
    s_target, s_ports, s_idx,      \* scan_ports: arguments, loop position
    s_status, s_exc, s_excmsg,     \* scan_ports: status, exception in flight
    s_sockets,    \* scan_ports: number of sockets currently open
    results,      \* scan_ports: results
    conn_log,     \* what the network did on each attempt of the scan
    calls,        \* how many times each probe function was entered
    run_log,      \* per call of run_command: what subprocess.run did and
                  \* what run_command returned
    sections,     \* titles given to print_section so far
    exitStatus,   \* exit status of the process, -1 while it runs
    sp_in, sp_out \* summarize_ping: argument, returned value

vars == <<entry, pc, argv, platform, target, bound, dns_ok, primary_ip,
          details, resolver_ret, ping_ok, ping_out, trace_ok,
          trace_out, ports_result, s_target, s_ports, s_idx, s_status,
          s_exc, s_excmsg, s_sockets, results, conn_log, calls, run_log,
          sections, exitStatus, sp_in, sp_out>>

mainVars == <<argv, platform, target, bound, dns_ok, primary_ip, details,
              resolver_ret, ping_ok, ping_out, trace_ok,
              trace_out, ports_result, calls, run_log, sections,
              exitStatus>>

scanVars == <<s_target, s_ports, s_idx, s_status, s_exc, s_excmsg,
              s_sockets, results, conn_log>>

----------------------------------------------------------------------------
(* Bounds of the model *)

MaxAddrs == 1
MaxPorts == 3
MaxFrags == 3

----------------------------------------------------------------------------
(* Python str operations *)

RECURSIVE Flatten(_)
Flatten(ss) == IF ss = <<>> THEN <<>> ELSE Head(ss) \o Flatten(Tail(ss))

SeqsUpTo(S, n) == UNION {[1..k -> S] : k \in 0..n}

UpperCase == <<"A","B","C","D","E","F","G","H","I","J","K","L","M",
               "N","O","P","Q","R","S","T","U","V","W","X","Y","Z">>

LowerCase == <<"a","b","c","d","e","f","g","h","i","j","k","l","m",
               "n","o","p","q","r","s","t","u","v","w","x","y","z">>

LowerChar(c) ==
    IF \E i \in 1..26 : UpperCase[i] = c
    THEN LowerCase[CHOOSE i \in 1..26 : UpperCase[i] = c]
    ELSE c

Lower(s) == [i \in 1..Len(s) |-> LowerChar(s[i])]

Whitespace == {" ", "\t", "\n", "\r", "\f"}

LineBreaks == {"\n", "\r", "\f"}

\* s without its leading and trailing whitespace
Strip(s) ==
    LET keep == {i \in 1..Len(s) : s[i] \notin Whitespace}
    IN IF keep = {} THEN <<>>
       ELSE SubSeq(s, CHOOSE i \in keep : \A j \in keep : i <= j,
                      CHOOSE i \in keep : \A j \in keep : j <= i)

Contains(sub, s) ==
    \E i \in 0..(Len(s) - Len(sub)) : SubSeq(s, i + 1, i + Len(sub)) = sub

\* the lines of s: a line ends at "\n", "\r", "\r\n" or "\f", the line
\* ends are left out and no empty line follows the last line end
Splitlines(s) ==
    LET n == Len(s)
        EndOfLine(i) ==
            IF \E j \in i..n : s[j] \in LineBreaks
            THEN CHOOSE j \in i..n :
                     /\ s[j] \in LineBreaks
                     /\ \A k \in i..(j - 1) : s[k] \notin LineBreaks
            ELSE n + 1
        LinesFrom[i \in 1..(n + 1)] ==
            IF i > n THEN <<>>
            ELSE LET j == EndOfLine(i)
                     width == IF j < n /\ s[j] = "\r" /\ s[j + 1] = "\n"
                              THEN 2 ELSE 1
                 IN IF j > n THEN <<SubSeq(s, i, n)>>
                    ELSE <<SubSeq(s, i, j - 1)>> \o LinesFrom[j + width]
    IN LinesFrom[1]

RECURSIVE Join(_, _)
Join(sep, ss) ==
    IF ss = <<>> THEN <<>>
    ELSE IF Len(ss) = 1 THEN ss[1]
    ELSE ss[1] \o sep \o Join(sep, Tail(ss))

Digits == <<"0","1","2","3","4","5","6","7","8","9">>

RECURSIVE IntToStr(_)
IntToStr(n) ==
    IF n < 10 THEN <<Digits[n + 1]>>
    ELSE IntToStr(n \div 10) \o <<Digits[(n % 10) + 1]>>

----------------------------------------------------------------------------
(* summarize_ping *)

FALLBACK == <<"S","e","e"," ","r","a","w"," ","o","u","t","p","u","t",".">>

M_loss == <<"l","o","s","s">>
M_Packets == <<"P","a","c","k","e","t","s",":">>
M_statistics == <<"s","t","a","t","i","s","t","i","c","s">>

LineMatches(line) ==
    \/ Contains(M_loss, Lower(line))
    \/ Contains(M_Packets, line)
    \/ Contains(M_statistics, line)

RECURSIVE FindSummary_forward(_, _)
FindSummary_forward(lines, i) ==
    IF i = 0 THEN <<>>
    ELSE LET k == Len(lines) - i + 1 IN
         IF LineMatches(lines[k]) THEN Strip(lines[k])
         ELSE FindSummary_forward(lines, i - 1)

\* the loop over lines[::-1]; i is the index of the line looked at,
\* the value is summary_line when the loop ends
RECURSIVE FindSummary(_, _)
FindSummary(lines, i) ==
    IF i = 0 THEN <<>>
    ELSE IF LineMatches(lines[i]) THEN Strip(lines[i])
    ELSE FindSummary(lines, i - 1)

summarize_ping(output) ==
    LET lines == Splitlines(output)
        summary_line == FindSummary(lines, Len(lines))
    IN IF summary_line # <<>> THEN summary_line ELSE FALLBACK

\* pieces of ping output: the three markers, their other-case spellings,
\* blanks, line ends and a character of no significance
PingFragments ==
    { M_loss, <<"L","o","s","s">>,
      M_Packets, <<"p","a","c","k","e","t","s",":">>,
      M_statistics, <<"S","t","a","t","i","s","t","i","c","s">>,
      <<" ">>, <<"\n">>, <<"\r">>, <<"x">> }

PingOutputs == {Flatten(fs) : fs \in SeqsUpTo(PingFragments, MaxFrags)}

----------------------------------------------------------------------------
(* Program constants *)

COMMON_PORTS == <<22, 80, 443>>

PING_COUNT == 4

NA == <<"N","/","A">>

----------------------------------------------------------------------------
(* The environment: what the operating system and the network answer *)

PROG == <<"C","L","I",".","p","y">>

\* sys.argv as the interpreter can hand it over
Argvs ==
    { <<PROG>>,
      <<PROG, <<>>>>,
      <<PROG, <<"h","o","s","t">>>> }

\* lines the user can type at the prompt
Answers ==
    { <<>>, <<" "," ">>, <<"h","o","s","t">>, <<" ","h","o","s","t"," ">> }

\* platform.system()
Platforms ==
    { <<"L","i","n","u","x">>, <<"W","i","n","d","o","w","s">> }

\* shutil.which(name): the path found, or None (falsy, as the empty str)
WhichResults(name) == { <<>>, <<"/","b","i","n","/">> \o name }

Addrs == { <<"1",".","1",".","1",".","1">>, <<"8",".","8",".","8",".","8">> }

GAI_MSG == <<"N","a","m","e"," ","n","o","t"," ","k","n","o","w","n">>

\* socket.gethostbyname_ex(target): raises, or returns an address list
ResolverOutcomes ==
    { [raised |-> TRUE, ipaddrlist |-> <<>>, msg |-> GAI_MSG] }
    \cup { [raised |-> FALSE, ipaddrlist |-> l, msg |-> <<>>] :
             l \in SeqsUpTo(Addrs, MaxAddrs) }

Returned(code, out, err) ==
    [kind |-> "returned", returncode |-> code, stdout |-> out,
     stderr |-> err, msg |-> <<>>]

Raised(exc, m) ==
    [kind |-> exc, returncode |-> 0, stdout |-> <<>>, stderr |-> <<>>,
     msg |-> m]

\* subprocess.run(cmd, capture_output=True, text=True, timeout=30):
\* a completed process, or an exception
RunOutcomes ==
    { Returned(0, <<"P","I","N","G","\n","0","%"," ","l","o","s","s","\n",
                    "r","t","t"," ","1","m","s","\n">>, <<>>),
      Returned(1, <<"S","t","a","t","i","s","t","i","c","s",":","\r","\n",
                    " ","P","a","c","k","e","t","s",":"," ","4","\r","\n">>,
               <<>>),
      Returned(2, <<>>, <<"u","n","k","n","o","w","n"," ","h","o","s","t",
                          "\n">>),
      Raised("FileNotFoundError",
             <<"N","o"," ","s","u","c","h"," ","f","i","l","e">>),
      Raised("TimeoutExpired", <<"t","i","m","e","d"," ","o","u","t">>) }

\* what happens to one TCP connect attempt within CONNECT_TIMEOUT
ConnectOutcomes == {"connected", "refused", "timed_out", "unresolved"}

----------------------------------------------------------------------------
(* run_command, ping_host, traceroute_host, dns_lookup *)

ERR_PREFIX == <<"E","r","r","o","r"," ","r","u","n","n","i","n","g"," ",
                "c","o","m","m","a","n","d"," ">>

run_command_noCatch(cmd, o) ==
    IF o.kind = "returned"
    THEN [raised |-> FALSE, code |-> o.returncode,
          out |-> Strip(o.stdout \o o.stderr)]
    ELSE [raised |-> TRUE, code |-> 1, out |-> <<>>]

run_command_zero(cmd, o) ==
    IF o.kind = "returned"
    THEN [raised |-> FALSE, code |-> o.returncode,
          out |-> Strip(o.stdout \o o.stderr)]
    ELSE [raised |-> FALSE, code |-> 0, out |-> o.msg]

\* o is what subprocess.run did; raised tells an exception left run_command
run_command(cmd, o) ==
    IF o.kind = "returned"
    THEN [raised |-> FALSE, code |-> o.returncode,
          out |-> Strip(o.stdout \o o.stderr)]
    ELSE [raised |-> FALSE, code |-> 1,
          out |-> ERR_PREFIX \o Join(<<" ">>, cmd) \o <<":"," ">> \o o.msg]

StartsWith(prefix, s) ==
    Len(s) >= Len(prefix) /\ SubSeq(s, 1, Len(prefix)) = prefix

IsWindows == StartsWith(<<"w","i","n">>, Lower(platform))

W_ping == <<"p","i","n","g">>
W_tracert == <<"t","r","a","c","e","r","t">>
W_traceroute == <<"t","r","a","c","e","r","o","u","t","e">>

PingCmd(t) ==
    IF IsWindows
    THEN <<W_ping, <<"-","n">>, IntToStr(PING_COUNT), t>>
    ELSE <<W_ping, <<"-","c">>, IntToStr(PING_COUNT), t>>

ping_host(t, o) ==
    LET r == run_command(PingCmd(t), o)
    IN [raised |-> r.raised, ok |-> (r.code = 0), out |-> r.out]

TracerName == IF IsWindows THEN W_tracert ELSE W_traceroute

\* w is what shutil.which returned
TraceCmd(t, w) ==
    LET tracer_cmd == IF w # <<>> THEN w ELSE TracerName
    IN <<tracer_cmd, t>>

traceroute_host(t, w, o) ==
    LET r == run_command(TraceCmd(t, w), o)
    IN [raised |-> r.raised, ok |-> (r.code = 0), out |-> r.out]

dns_lookup_noCatch(t, r) ==
    IF ~r.raised
    THEN [raised |-> FALSE, success |-> TRUE,
          primary_ip |-> IF r.ipaddrlist # <<>> THEN r.ipaddrlist[1] ELSE NA,
          details |-> r.ipaddrlist]
    ELSE [raised |-> TRUE, success |-> FALSE, primary_ip |-> NA,
          details |-> <<>>]

\* r is what socket.gethostbyname_ex(t) did
dns_lookup(t, r) ==
    IF ~r.raised
    THEN [raised |-> FALSE, success |-> TRUE,
          primary_ip |-> IF r.ipaddrlist # <<>> THEN r.ipaddrlist[1] ELSE NA,
          details |-> r.ipaddrlist]
    ELSE [raised |-> FALSE, success |-> FALSE, primary_ip |-> NA,
          details |-> <<r.msg>>]

----------------------------------------------------------------------------
(* scan_ports *)

S_open == <<"o","p","e","n">>
S_closed == <<"c","l","o","s","e","d">>
S_timeout == <<"t","i","m","e","o","u","t">>

\* s.connect_ex((target, port)) on a socket with a timeout set: the errno
\* of the attempt is returned, 0 on success, ECONNREFUSED (111) when the
\* peer refuses, EAGAIN (11) when the timeout runs out; an address that
\* cannot be resolved raises socket.gaierror
connect_ex(o) ==
    CASE o = "connected" -> [exc |-> "none", result |-> 0, msg |-> <<>>]
      [] o = "refused" -> [exc |-> "none", result |-> 111, msg |-> <<>>]
      [] o = "timed_out" -> [exc |-> "none", result |-> 11, msg |-> <<>>]
      [] o = "unresolved" ->
             [exc |-> "socket.gaierror", result |-> 0, msg |-> GAI_MSG]

\* the if/else on the value of connect_ex
StatusOfResult(result) == IF result = 0 THEN S_open ELSE S_closed

SocketsAfterWith_leakOnRaise(n, exc) == IF exc = "none" THEN n - 1 ELSE n

\* leaving the with block closes the socket, an exception in flight or not
SocketsAfterWith(n, exc) == n - 1

StatusAfterExcept_noGeneric(status, exc, msg) ==
    IF exc = "none" THEN [raised |-> FALSE, status |-> status]
    ELSE IF exc = "socket.timeout"
    THEN [raised |-> FALSE, status |-> S_timeout]
    ELSE [raised |-> TRUE, status |-> status]

\* the except clauses of the try statement
StatusAfterExcept(status, exc, msg) ==
    IF exc = "none" THEN [raised |-> FALSE, status |-> status]
    ELSE IF exc = "socket.timeout"
    THEN [raised |-> FALSE, status |-> S_timeout]
    ELSE [raised |-> FALSE,
          status |-> <<"e","r","r","o","r"," ","(">> \o msg \o <<")">>]

\* for port in ports: the next port with status = "closed", or return
ScanLoop ==
    /\ pc = "scan_loop"
    /\ IF s_idx < Len(s_ports)
       THEN /\ s_idx' = s_idx + 1
            /\ s_status' = S_closed
            /\ pc' = "scan_socket"
       ELSE /\ pc' = "scan_returned"
            /\ UNCHANGED <<s_idx, s_status>>
    /\ UNCHANGED <<entry, mainVars, s_target, s_ports, s_exc, s_excmsg,
                   s_sockets, results, conn_log, sp_in, sp_out>>

\* socket.socket(AF_INET, SOCK_STREAM): a new socket, or OSError
ScanSocket ==
    /\ pc = "scan_socket"
    /\ \E created \in BOOLEAN :
         IF created
         THEN /\ s_sockets' = s_sockets + 1
              /\ pc' = "scan_connect"
              /\ UNCHANGED <<s_exc, s_excmsg, conn_log>>
         ELSE /\ s_exc' = "OSError"
              /\ s_excmsg' = <<"E","M","F","I","L","E">>
              /\ conn_log' = Append(conn_log, "no_socket")
              /\ pc' = "scan_except"
              /\ UNCHANGED s_sockets
    /\ UNCHANGED <<entry, mainVars, s_target, s_ports, s_idx, s_status,
                   results, sp_in, sp_out>>

\* the body of the with block: settimeout, connect_ex, status
ScanConnect ==
    /\ pc = "scan_connect"
    /\ \E o \in ConnectOutcomes :
         LET r == connect_ex(o) IN
         /\ conn_log' = Append(conn_log, o)
         /\ s_exc' = r.exc
         /\ s_excmsg' = r.msg
         /\ s_status' = IF r.exc = "none" THEN StatusOfResult(r.result)
                        ELSE s_status
    /\ pc' = "scan_with_exit"
    /\ UNCHANGED <<entry, mainVars, s_target, s_ports, s_idx, s_sockets,
                   results, sp_in, sp_out>>

\* the end of the with block
ScanWithExit ==
    /\ pc = "scan_with_exit"
    /\ s_sockets' = SocketsAfterWith(s_sockets, s_exc)
    /\ pc' = "scan_except"
    /\ UNCHANGED <<entry, mainVars, s_target, s_ports, s_idx, s_status,
                   s_exc, s_excmsg, results, conn_log, sp_in, sp_out>>

\* the except clauses and results.append((port, status))
ScanAppend ==
    /\ pc = "scan_except"
    /\ LET h == StatusAfterExcept(s_status, s_exc, s_excmsg) IN
       IF h.raised
       THEN /\ pc' = "crashed"
            /\ exitStatus' = 1
            /\ UNCHANGED <<s_status, results>>
       ELSE /\ s_status' = h.status
            /\ results' = Append(results, <<s_ports[s_idx], h.status>>)
            /\ pc' = "scan_loop"
            /\ UNCHANGED exitStatus
    /\ s_exc' = "none"
    /\ s_excmsg' = <<>>
    /\ UNCHANGED <<entry, argv, platform, target, bound, dns_ok, primary_ip,
                   details, resolver_ret, ping_ok, ping_out,
                   trace_ok, trace_out, ports_result, calls, run_log,
                   sections, s_target, s_ports, s_idx, s_sockets, conn_log,
                   sp_in, sp_out>>

ScanNext == ScanLoop \/ ScanSocket \/ ScanConnect \/ ScanWithExit \/ ScanAppend

----------------------------------------------------------------------------
(* main *)

Probes == {"dns_lookup", "ping_host", "traceroute_host", "scan_ports"}

Called(f) == [calls EXCEPT ![f] = @ + 1]

\* an exception that leaves main ends the process with status 1
Crash ==
    /\ pc' = "crashed"
    /\ exitStatus' = 1

IsEmptyTarget_never(t) == FALSE

\* if not target
IsEmptyTarget(t) == t = <<>>

\* the target from sys.argv[1] or from the prompt; the usage error
MainGetTarget ==
    /\ entry = "main"
    /\ pc = "main_start"
    /\ \E answer \in Answers :
         target' = IF Len(argv) >= 2 THEN argv[2] ELSE Strip(answer)
    /\ IF IsEmptyTarget(target')
       THEN /\ pc' = "exited"
            /\ exitStatus' = 1
            /\ UNCHANGED sections
       ELSE /\ pc' = "main_dns"
            /\ sections' = Append(sections, "NETWORK DIAGNOSTICS")
            /\ UNCHANGED exitStatus
    /\ UNCHANGED <<entry, argv, platform, bound, dns_ok, primary_ip, details,
                   resolver_ret, ping_ok, ping_out, trace_ok,
                   trace_out, ports_result, calls, run_log, scanVars,
                   sp_in, sp_out>>

\* dns_lookup(target), its result bound to dns_ok, primary_ip, details
MainDns ==
    /\ entry = "main"
    /\ pc = "main_dns"
    /\ calls' = Called("dns_lookup")
    /\ sections' = Append(sections, "DNS LOOKUP")
    /\ \E r \in ResolverOutcomes :
         LET d == dns_lookup(target, r) IN
         /\ resolver_ret' = r
         /\ IF d.raised
            THEN /\ Crash
                 /\ UNCHANGED <<dns_ok, primary_ip, details, bound>>
            ELSE /\ dns_ok' = d.success
                 /\ primary_ip' = d.primary_ip
                 /\ details' = d.details
                 /\ bound' = bound \cup {"dns"}
                 /\ pc' = "main_ping"
                 /\ UNCHANGED exitStatus
    /\ UNCHANGED <<entry, argv, platform, target, ping_ok, ping_out,
                   trace_ok, trace_out, ports_result, run_log,
                   scanVars, sp_in, sp_out>>

\* ping_host(target); the summary line and the raw output are only printed
MainPing ==
    /\ entry = "main"
    /\ pc = "main_ping"
    /\ calls' = Called("ping_host")
    /\ sections' = Append(sections, "PING TEST")
    /\ \E o \in RunOutcomes :
         LET p == ping_host(target, o)
             r == run_command(PingCmd(target), o)
         IN
         /\ run_log' = Append(run_log, [kind |-> o.kind, raised |-> r.raised,
                                        code |-> r.code, out |-> r.out])
         /\ IF p.raised
            THEN /\ Crash
                 /\ UNCHANGED <<ping_ok, ping_out, bound>>
            ELSE /\ ping_ok' = p.ok
                 /\ ping_out' = p.out
                 /\ bound' = bound \cup {"ping"}
                 /\ pc' = "main_trace"
                 /\ UNCHANGED exitStatus
    /\ UNCHANGED <<entry, argv, platform, target, dns_ok, primary_ip,
                   details, resolver_ret, trace_ok, trace_out, ports_result,
                   scanVars, sp_in, sp_out>>

\* traceroute_host(target)
MainTrace ==
    /\ entry = "main"
    /\ pc = "main_trace"
    /\ calls' = Called("traceroute_host")
    /\ sections' = Append(sections, "TRACEROUTE")
    /\ \E w \in WhichResults(TracerName), o \in RunOutcomes :
         LET t == traceroute_host(target, w, o)
             r == run_command(TraceCmd(target, w), o)
         IN
         /\ run_log' = Append(run_log, [kind |-> o.kind, raised |-> r.raised,
                                        code |-> r.code, out |-> r.out])
         /\ IF t.raised
            THEN /\ Crash
                 /\ UNCHANGED <<trace_ok, trace_out, bound>>
            ELSE /\ trace_ok' = t.ok
                 /\ trace_out' = t.out
                 /\ bound' = bound \cup {"trace"}
                 /\ pc' = "main_scan"
                 /\ UNCHANGED exitStatus
    /\ UNCHANGED <<entry, argv, platform, target, dns_ok, primary_ip,
                   details, resolver_ret, ping_ok, ping_out,
                   ports_result, scanVars, sp_in, sp_out>>

ScanTarget_alwaysRaw(ok, ip, t) == t

\* primary_ip if dns_ok else target
ScanTarget(ok, ip, t) == IF ok THEN ip ELSE t

\* the call scan_ports(primary_ip if dns_ok else target, COMMON_PORTS)
MainScan ==
    /\ entry = "main"
    /\ pc = "main_scan"
    /\ calls' = Called("scan_ports")
    /\ sections' = Append(sections, "PORT SCAN")
    /\ s_target' = ScanTarget(dns_ok, primary_ip, target)
    /\ s_ports' = COMMON_PORTS
    /\ s_idx' = 0
    /\ results' = <<>>
    /\ pc' = "scan_loop"
    /\ UNCHANGED <<entry, argv, platform, target, bound, dns_ok, primary_ip,
                   details, resolver_ret, ping_ok, ping_out,
                   trace_ok, trace_out, ports_result, exitStatus, run_log,
                   s_status, s_exc, s_excmsg, s_sockets, conn_log,
                   sp_in, sp_out>>

\* scan_ports has returned: the port lines, the summary, the end of main
MainSummary ==
    /\ entry = "main"
    /\ pc = "scan_returned"
    /\ ports_result' = results
    /\ bound' = bound \cup {"ports"}
    /\ sections' = Append(sections, "SUMMARY")
    /\ pc' = "done"
    /\ exitStatus' = 0
    /\ UNCHANGED <<entry, argv, platform, target, dns_ok, primary_ip,
                   details, resolver_ret, ping_ok, ping_out,
                   trace_ok, trace_out, calls, run_log, scanVars,
                   sp_in, sp_out>>

\* summarize_ping called on its own
SummarizeStep ==
    /\ entry = "summarize_ping"
    /\ pc = "sp_call"
    /\ sp_out' = summarize_ping(sp_in)
    /\ pc' = "sp_returned"
    /\ UNCHANGED <<entry, mainVars, scanVars, sp_in>>

----------------------------------------------------------------------------
(* Specifications *)

InitLocals ==
    /\ target = <<>>
    /\ bound = {}
    /\ dns_ok = FALSE
    /\ primary_ip = <<>>
    /\ details = <<>>
    /\ resolver_ret = [raised |-> FALSE, ipaddrlist |-> <<>>, msg |-> <<>>]
    /\ ping_ok = FALSE
    /\ ping_out = <<>>
    /\ trace_ok = FALSE
    /\ trace_out = <<>>
    /\ ports_result = <<>>
    /\ s_idx = 0
    /\ s_status = <<>>
    /\ s_exc = "none"
    /\ s_excmsg = <<>>
    /\ s_sockets = 0
    /\ results = <<>>
    /\ conn_log = <<>>
    /\ run_log = <<>>
    /\ sections = <<>>
    /\ exitStatus = -1
    /\ sp_out = <<>>

\* the process starts main
Init ==
    /\ entry = "main"
    /\ pc = "main_start"
    /\ argv \in Argvs
    /\ platform \in Platforms
    /\ calls = [f \in Probes |-> 0]
    /\ s_target = <<>>
    /\ s_ports = <<>>
    /\ sp_in = <<>>
    /\ InitLocals

Next ==
    \/ MainGetTarget
    \/ MainDns
    \/ MainPing
    \/ MainTrace
    \/ MainScan
    \/ ScanNext
    \/ MainSummary

Spec == Init /\ [][Next]_vars

\* the thread of control runs on: every blocking call is bounded by a timeout
FairSpec == Spec /\ WF_vars(Next)

ScanPortSet == {22, 80}

\* scan_ports is called with any address and any port list
InitScan ==
    /\ entry = "scan_ports"
    /\ pc = "scan_loop"
    /\ argv = <<PROG>>
    /\ platform \in Platforms
    /\ calls = [f \in Probes |-> IF f = "scan_ports" THEN 1 ELSE 0]
    /\ s_target \in Addrs \cup {<<"h","o","s","t">>}
    /\ s_ports \in SeqsUpTo(ScanPortSet, MaxPorts)
    /\ sp_in = <<>>
    /\ InitLocals

SpecScan == InitScan /\ [][ScanNext]_vars

\* summarize_ping is called with any output
InitSummarize ==
    /\ entry = "summarize_ping"
    /\ pc = "sp_call"
    /\ argv = <<PROG>>
    /\ platform \in Platforms
    /\ calls = [f \in Probes |-> 0]
    /\ s_target = <<>>
    /\ s_ports = <<>>
    /\ sp_in \in PingOutputs
    /\ InitLocals

SpecSummarize == InitSummarize /\ [][SummarizeStep]_vars

----------------------------------------------------------------------------
(* Properties *)

\* C1: for a non-empty target, whatever the probes answer, a run of main
\* enters dns_lookup, ping_host, traceroute_host and scan_ports exactly once
\* each, no exception ends it, and it reaches the summary with the result of
\* each of the four bound.
C1_AllStagesRunOnce ==
    (pc = "main_dns") ~>
        (/\ pc = "done"
         /\ \A f \in Probes : calls[f] = 1
         /\ bound = {"dns", "ping", "trace", "ports"}
         /\ Len(ports_result) = Len(COMMON_PORTS)
         /\ sections[Len(sections)] = "SUMMARY")

C1_Witness ==
    /\ pc = "done"
    /\ ~dns_ok /\ ~ping_ok /\ ~trace_ok
    /\ \A i \in 1..Len(ports_result) : ports_result[i][2] # S_open
    /\ \A f \in Probes : calls[f] = 1

\* C2: the address given to scan_ports is the target when dns_lookup
\* failed and the primary address dns_lookup returned when it succeeded.
C2_ScanTargetFromDns ==
    calls["scan_ports"] = 1 =>
        /\ ~dns_ok => s_target = target
        /\ dns_ok => s_target = primary_ip

C2_Witness ==
    /\ pc = "scan_returned"
    /\ dns_ok
    /\ s_target = primary_ip
    /\ s_target \in Addrs
    /\ s_target # target

\* C3: when dns_lookup reports success, the primary address is a real
\* address (not the placeholder), it is the first element of the address
\* list, and the list is the resolver's list in the resolver's order.
C3_PrimaryIsFirstAddress ==
    ("dns" \in bound /\ dns_ok) =>
        /\ details = resolver_ret.ipaddrlist
        /\ primary_ip # NA
        /\ Len(details) >= 1
        /\ primary_ip = details[1]

\* C4: scan_ports returns one result per requested port, in the order of
\* the port list, duplicates kept, whatever each attempt did: no attempt
\* ends the scan.
C4_OneResultPerPort ==
    /\ pc # "crashed"
    /\ Len(results) <= Len(s_ports)
    /\ \A i \in 1..Len(results) : results[i][1] = s_ports[i]
    /\ pc \in {"scan_loop", "scan_returned"} => Len(results) = Len(conn_log)
    /\ pc = "scan_returned" => Len(results) = Len(s_ports)

C4_Witness ==
    /\ pc = "scan_returned"
    /\ Len(s_ports) = 3
    /\ s_ports[1] = s_ports[3]
    /\ conn_log = <<"unresolved", "timed_out", "no_socket">>
    /\ Len(results) = 3

\* C5: an attempt that runs into the connect timeout has status timeout,
\* a refused one closed, a successful one open.
C5_TimeoutClassified ==
    \A i \in 1..Len(results) :
        /\ conn_log[i] = "timed_out" => results[i][2] = S_timeout
        /\ conn_log[i] = "refused" => results[i][2] = S_closed
        /\ conn_log[i] = "connected" => results[i][2] = S_open

\* C6: no exception leaves run_command; when subprocess.run raised (the
\* executable cannot be launched, the timeout ran out) run_command returns
\* exit code 1 and a non-empty message, and ping_host and traceroute_host,
\* which succeed exactly on exit code 0, report failure.
C6_RunCommandNeverRaises ==
    /\ pc # "crashed"
    /\ \A i \in 1..Len(run_log) :
          /\ ~run_log[i].raised
          /\ run_log[i].kind # "returned" =>
               /\ run_log[i].code = 1
               /\ run_log[i].out # <<>>
    /\ "ping" \in bound =>
          /\ ping_ok = (run_log[1].code = 0)
          /\ ping_out = run_log[1].out
          /\ run_log[1].kind # "returned" => ~ping_ok
    /\ "trace" \in bound =>
          /\ trace_ok = (run_log[2].code = 0)
          /\ trace_out = run_log[2].out
          /\ run_log[2].kind # "returned" => ~trace_ok

C6_Witness ==
    /\ "trace" \in bound
    /\ run_log[1].kind = "FileNotFoundError"
    /\ run_log[2].kind = "TimeoutExpired"
    /\ ~ping_ok /\ ~trace_ok
    /\ ping_out # <<>> /\ trace_out # <<>>

\* C7: with an empty target main exits with status 1 before any probe is
\* entered.
C7_EmptyTargetAborts ==
    (pc # "main_start" /\ target = <<>>) =>
        /\ pc = "exited"
        /\ exitStatus = 1
        /\ \A f \in Probes : calls[f] = 0
        /\ bound = {}
        /\ run_log = <<>> /\ conn_log = <<>>

C7_Witness ==
    /\ pc = "exited"
    /\ Len(argv) = 1
    /\ target = <<>>
    /\ exitStatus = 1

\* C8: the process ends with a non-zero status if and only if the target
\* is empty; with a non-empty target it ends with status 0 whatever the
\* probes answered.
C8_ExitStatus ==
    /\ pc \in {"done", "exited", "crashed"} <=> exitStatus # -1
    /\ exitStatus # -1 => (exitStatus # 0 <=> target = <<>>)

C8_Witness ==
    /\ exitStatus = 0
    /\ target # <<>>
    /\ ~dns_ok
    /\ run_log[1].kind = "FileNotFoundError"
    /\ run_log[2].kind = "TimeoutExpired"
    /\ \E i \in 1..Len(ports_result) : ports_result[i][2] = S_closed
    /\ \E i \in 1..Len(ports_result) : ports_result[i][2] \notin {S_open, S_closed}

\* C9: summarize_ping returns, trimmed, the last line of the output that
\* contains "loss" in any case, "statistics" or "Packets:", and
\* "See raw output." when no line does; the result is never empty.
C9_LastMarkerLine ==
    pc = "sp_returned" =>
        LET lines == Splitlines(sp_in)
            Marked(i) ==
                \/ Contains(<<"l","o","s","s">>, Lower(lines[i]))
                \/ Contains(<<"s","t","a","t","i","s","t","i","c","s">>,
                            lines[i])
                \/ Contains(<<"P","a","c","k","e","t","s",":">>, lines[i])
        IN /\ sp_out # <<>>
           /\ IF \E i \in 1..Len(lines) : Marked(i)
              THEN \E i \in 1..Len(lines) :
                      /\ Marked(i)
                      /\ \A j \in (i + 1)..Len(lines) : ~Marked(j)
                      /\ sp_out = Strip(lines[i])
              ELSE sp_out = <<"S","e","e"," ","r","a","w"," ",
                              "o","u","t","p","u","t",".">>

C9_Witness ==
    /\ pc = "sp_returned"
    /\ sp_in = <<"P","a","c","k","e","t","s",":","\n","L","o","s","s">>
    /\ sp_out = <<"L","o","s","s">>

\* C10: at most one socket is open at any point of a scan, and none is
\* open when the next attempt begins or when scan_ports has returned.
C10_NoSocketLeak ==
    /\ s_sockets \in {0, 1}
    /\ pc \in {"scan_loop", "scan_socket", "scan_except", "scan_returned"}
          => s_sockets = 0

C10_Witness ==
    /\ pc = "scan_returned"
    /\ s_sockets = 0
    /\ Len(results) = 3
    /\ conn_log[1] = "unresolved"
    /\ conn_log[2] = "connected"

====
